---- MODULE Spec2Model ----
(***************************************************************************)
(* Model of transcript_to_podcast (src/app.py): the two lexical scans of   *)
(* the transcript, the voice assignment, the ordered rendering loop and    *)
(* the final combination of the collected segments.                        *)
(*                                                                         *)
(* Text is a sequence of one-character strings.  Offsets are 0-based, as   *)
(* in the source: the character at offset p of s is s[p + 1].              *)
(***************************************************************************)
EXTENDS Integers, Sequences, FiniteSets, TLC

VARIABLES transcript_text, pc, speakers, speaker_voices, temp_dir,
          temp_files, segments, all_elements, i, warnings, result

vars == <<transcript_text, pc, speakers, speaker_voices, temp_dir,
          temp_files, segments, all_elements, i, warnings, result>>

----------------------------------------------------------------------------
(* Bounds of the explored inputs *)

MaxTokens == 4

MaxCueWords == 4

----------------------------------------------------------------------------
(* Character classes and string helpers *)

Letters ==
  {"a", "b", "x", "m", "u", "s", "i", "c", "f", "d", "e", "n", "o", "t",
   "l", "A", "L"}

Whitespace == {" ", "\n"}

IsAlpha(c) == c \in Letters

IsSpace(c) == c \in Whitespace

LowerChar(c) == IF c = "A" THEN "a" ELSE IF c = "L" THEN "l" ELSE c

Lower(t) == [k \in 1..Len(t) |-> LowerChar(t[k])]

Min(S) == CHOOSE x \in S : \A y \in S : x <= y

\* s[a:b] of the source (0-based, end exclusive)
Slice(s, a, b) == IF b <= a THEN <<>> ELSE SubSeq(s, a + 1, b)

\* "w in t"
Contains(t, w) ==
  \E k \in 0..(Len(t) - Len(w)) : Slice(t, k, k + Len(w)) = w

\* t.strip(chars)
StripChars(t, chars) ==
  LET keep == {k \in 1..Len(t) : t[k] \notin chars}
  IN  IF keep = {} THEN <<>>
      ELSE SubSeq(t, Min(keep), CHOOSE x \in keep : \A y \in keep : y <= x)

Strip(t) == StripChars(t, Whitespace)

\* offset just after the maximal run of letters starting at offset p
AlphaEnd(s, p) ==
  Min({q \in p..Len(s) : q = Len(s) \/ ~IsAlpha(s[q + 1])})

\* offset just after the maximal run of whitespace starting at offset p
WsEnd(s, p) ==
  Min({q \in p..Len(s) : q = Len(s) \/ ~IsSpace(s[q + 1])})

\* [A-Za-z]+: matches at offset p
LabelAt(s, p) ==
  /\ p < Len(s)
  /\ IsAlpha(s[p + 1])
  /\ AlphaEnd(s, p) < Len(s)
  /\ s[AlphaEnd(s, p) + 1] = ":"

\* offsets >= pos at which [A-Za-z]+: matches
LabelStarts(s, pos) == {p \in pos..(Len(s) - 1) : LabelAt(s, p)}

----------------------------------------------------------------------------
(* Lexical scans *)

\* an entry of cue_positions: (m.start(), m.group())
CueElement(p, group) ==
  [pos |-> p, kind |-> "cue", speaker |-> <<>>, text |-> group]

\* an entry of turn_positions: (match.start(), (speaker, text))
TurnElement(p, speaker, text) ==
  [pos |-> p, kind |-> "turn", speaker |-> speaker, text |-> text]

\* offsets after p at which the lazy .*? of \[(.*?)\] has to stop
CueStops(s, p) == {r \in (p + 1)..(Len(s) - 1) : s[r + 1] \in {"]", "\n"}}

\* \[(.*?)\] matches at offset p
CueAt(s, p) ==
  /\ p < Len(s)
  /\ s[p + 1] = "["
  /\ CueStops(s, p) # {}
  /\ s[Min(CueStops(s, p)) + 1] = "]"

\* re.finditer(r'\[(.*?)\]', transcript_text), scanning from offset pos
RECURSIVE CuePositionsFrom(_, _)
CuePositionsFrom(s, pos) ==
  LET starts == {p \in pos..(Len(s) - 1) : CueAt(s, p)}
  IN  IF starts = {} THEN <<>>
      ELSE LET p == Min(starts)
               r == Min(CueStops(s, p))
           IN  <<CueElement(p, Slice(s, p, r + 1))>>
                 \o CuePositionsFrom(s, r + 1)

CuePositions(s) == CuePositionsFrom(s, 0)

\* re.search(r'\n[A-Za-z]+:', transcript_text[start_pos:])
NextTurnStarts(s, start_pos) ==
  {q \in start_pos..(Len(s) - 1) : s[q + 1] = "\n" /\ LabelAt(s, q + 1)}

\* re.search(r'\[', transcript_text[start_pos:])
NextCueStarts(s, start_pos) ==
  {q \in start_pos..(Len(s) - 1) : s[q + 1] = "["}

\* the end of the turn whose text starts at start_pos
TurnEnd(s, start_pos) ==
  LET end0 == Len(s)
      end1 == IF NextTurnStarts(s, start_pos) # {}
                   /\ Min(NextTurnStarts(s, start_pos)) < end0
              THEN Min(NextTurnStarts(s, start_pos)) ELSE end0
      end2 == IF NextCueStarts(s, start_pos) # {}
                   /\ Min(NextCueStarts(s, start_pos)) < end1
              THEN Min(NextCueStarts(s, start_pos)) ELSE end1
  IN  end2

\* the loop over re.finditer(r'([A-Za-z]+):\s*', transcript_text)
RECURSIVE TurnPositionsFrom(_, _)
TurnPositionsFrom(s, pos) ==
  IF LabelStarts(s, pos) = {} THEN <<>>
  ELSE LET p         == Min(LabelStarts(s, pos))
           colon     == AlphaEnd(s, p)
           start_pos == WsEnd(s, colon + 1)
           end_pos   == TurnEnd(s, start_pos)
           text      == Strip(Slice(s, start_pos, end_pos))
       IN  (IF text # <<>>
            THEN <<TurnElement(p, Slice(s, p, colon), text)>>
            ELSE <<>>)
             \o TurnPositionsFrom(s, start_pos)

TurnPositions(s) == TurnPositionsFrom(s, 0)

\* the lookahead (?=\n[A-Za-z]+:|$|\[) holds at offset e
TurnLookahead(s, e) ==
  \/ e = Len(s)
  \/ e = Len(s) - 1 /\ s[e + 1] = "\n"
  \/ e < Len(s) /\ s[e + 1] = "["
  \/ e < Len(s) /\ s[e + 1] = "\n" /\ LabelAt(s, e + 1)

\* turn[0] of re.findall(pattern, transcript_text, re.DOTALL), in match order
RECURSIVE SpeakerTurnsFrom(_, _)
SpeakerTurnsFrom(s, pos) ==
  IF LabelStarts(s, pos) = {} THEN <<>>
  ELSE LET p     == Min(LabelStarts(s, pos))
           colon == AlphaEnd(s, p)
           w     == WsEnd(s, colon + 1)
           e     == IF w < Len(s)
                    THEN Min({q \in (w + 1)..Len(s) : TurnLookahead(s, q)})
                    ELSE Len(s)
       IN  IF colon + 1 >= Len(s) THEN <<>>
           ELSE <<Slice(s, p, colon)>> \o SpeakerTurnsFrom(s, e)

SpeakerTurns(s) == SpeakerTurnsFrom(s, 0)

\* the sort left out: the list stays cue_positions + turn_positions
SortByPosSkipped(seq) == seq

\* all_elements.sort(key=lambda x: x[0]): stable insertion into a sorted list
RECURSIVE SortByPos(_)
SortByPos(seq) ==
  IF seq = <<>> THEN <<>>
  ELSE LET sorted == SortByPos(SubSeq(seq, 1, Len(seq) - 1))
           x      == seq[Len(seq)]
           before == {k \in 1..Len(sorted) : sorted[k].pos <= x.pos}
           n      == IF before = {} THEN 0
                     ELSE CHOOSE k \in before : \A j \in before : j <= k
       IN  SubSeq(sorted, 1, n) \o <<x>> \o SubSeq(sorted, n + 1, Len(sorted))

\* all_elements = cue_positions + turn_positions, sorted by position
AllElements(s) == SortByPos(CuePositions(s) \o TurnPositions(s))

----------------------------------------------------------------------------
(* Voices, clips and cue interpretation *)

voice_options ==
  << [lang |-> "en-us", tld |-> "com"],
     [lang |-> "en-gb", tld |-> "co.uk"],
     [lang |-> "en-au", tld |-> "com.au"],
     [lang |-> "en-ca", tld |-> "ca"] >>

\* the distinct speakers of speaker_turns
SpeakerSet(s) == {SpeakerTurns(s)[k] : k \in 1..Len(SpeakerTurns(s))}

\* list(set(...)): the distinct speakers in an order the hash seed decides
SpeakerLists(s) ==
  LET n == Cardinality(SpeakerSet(s))
  IN  {l \in [1..n -> SpeakerSet(s)] : \A j, k \in 1..n : l[j] = l[k] => j = k}

\* speaker_voices[speaker] = voice_options[i % len(voice_options)]
AssignVoices(l) ==
  [sp \in {l[k] : k \in 1..Len(l)} |->
     voice_options[(((CHOOSE k \in 1..Len(l) : l[k] = sp) - 1)
                      % Len(voice_options)) + 1]]

\* a clip appended to segments, tagged with the offset of the event it is for
Clip(kind, p) == [kind |-> kind, pos |-> p, text |-> <<>>, lang |-> ""]

\* AudioSegment.from_file of what gTTS(text=text, lang=voice['lang'], ...) saved
Speech(kind, p, text, voice) ==
  [kind |-> kind, pos |-> p, text |-> text, lang |-> voice.lang]

\* generate_music(5000, "intro").fade_in(1000).fade_out(2000)
IntroClip == Clip("intro_fade_in_fade_out", -1)

\* element.strip('[]').lower()
CueText(element) == Lower(StripChars(element.text, {"[", "]"}))

MusicWord == <<"m", "u", "s", "i", "c">>
FadeWord  == <<"f", "a", "d", "e">>
InWord    == <<"i", "n">>
OutWord   == <<"o", "u", "t">>
AllWord   == <<"a", "l", "l", ":">>

\* "music" in cue_text and "fade" in cue_text
IsMusicCue(cue_text) == Contains(cue_text, MusicWord) /\ Contains(cue_text, FadeWord)

\* the music branch with the "out" test put before the "in" test
MusicClipsOutFirst(cue_text, p) ==
  IF Contains(cue_text, OutWord)
  THEN <<Clip("outro_fade_out", p)>>
  ELSE IF Contains(cue_text, InWord)
  THEN <<Clip("background_fade_in", p)>>
  ELSE <<>>

\* the clips the music branch appends for cue_text
MusicClips(cue_text, p) ==
  IF Contains(cue_text, InWord)
  THEN <<Clip("background_fade_in", p)>>
  ELSE IF Contains(cue_text, OutWord)
  THEN <<Clip("outro_fade_out", p)>>
  ELSE <<>>

\* "all:" in cue_text.lower(), reached when the music test fails
IsAllCue(cue_text) == ~IsMusicCue(cue_text) /\ Contains(Lower(cue_text), AllWord)

\* cue_text.split(":", 1)[1].strip()
AllUtterance(cue_text) ==
  LET colon == Min({k \in 1..Len(cue_text) : cue_text[k] = ":"})
  IN  Strip(SubSeq(cue_text, colon + 1, Len(cue_text)))

----------------------------------------------------------------------------
(* Inputs *)

Tokens ==
  { <<"a", ":">>, <<"b", ":">>, <<"x">>, <<" ">>, <<"\n">>, <<"[">>, <<"]">> }

CueWords == { MusicWord, FadeWord, InWord, OutWord, <<" ">>, <<"x">> }

CuePrefixes == { <<>>, <<"a", ":", "x">> }

CueHeads == { <<>>, <<"A", "L", "L", ":">> }

RECURSIVE Flatten(_)
Flatten(ws) == IF ws = <<>> THEN <<>> ELSE Head(ws) \o Flatten(Tail(ws))

\* the lists of n cue words, each word used at most once
WordLists(n) ==
  {f \in [1..n -> CueWords] : \A j, k \in 1..n : f[j] = f[k] => j = k}

TokenTranscripts ==
  UNION {{Flatten(f) : f \in [1..n -> Tokens]} : n \in 0..MaxTokens}

CueTranscripts ==
  UNION {{pre \o <<"[">> \o head \o Flatten(f) \o <<"]">> :
            f \in WordLists(n), pre \in CuePrefixes, head \in CueHeads} :
           n \in 0..MaxCueWords}

----------------------------------------------------------------------------
(* transcript_to_podcast *)

Init ==
  /\ transcript_text \in TokenTranscripts \cup CueTranscripts
  /\ pc = "start"
  /\ speakers = <<>>
  /\ speaker_voices = <<>>
  /\ temp_dir = FALSE
  /\ temp_files = {}
  /\ segments = <<>>
  /\ all_elements = <<>>
  /\ i = 0
  /\ warnings = 0
  /\ result = "pending"

\* lines 27-95: scans, voice assignment, temp dir, intro clip, ordered events
Parse ==
  /\ pc = "start"
  /\ \E l \in SpeakerLists(transcript_text) :
       /\ speakers' = l
       /\ speaker_voices' = AssignVoices(l)
  /\ temp_dir' = TRUE
  /\ segments' = <<IntroClip>>
  /\ all_elements' = AllElements(transcript_text)
  /\ pc' = "loop"
  /\ UNCHANGED <<transcript_text, temp_files, i, warnings, result>>

\* the element the loop is at
Element == all_elements[i + 1]

\* os.path.join(temp_dir, f"segment_{len(segments)}.mp3")
SegmentFile == <<"segment", Len(segments)>>

\* lines 107-127: the turn is synthesized; its clip and a pause are appended
TurnSynthesized ==
  /\ pc = "loop" /\ i < Len(all_elements)
  /\ Element.kind = "turn"
  /\ Element.speaker \in DOMAIN speaker_voices
  /\ temp_files' = temp_files \cup {SegmentFile}
  /\ segments' = segments \o
       <<Speech("speech", Element.pos, Element.text,
                speaker_voices[Element.speaker]),
         Clip("pause", Element.pos)>>
  /\ i' = i + 1
  /\ UNCHANGED <<transcript_text, pc, speakers, speaker_voices, temp_dir,
                 all_elements, warnings, result>>

\* lines 107-131: the voice lookup, gTTS or the file load raises
TurnFailed ==
  /\ pc = "loop" /\ i < Len(all_elements)
  /\ Element.kind = "turn"
  /\ IF Element.speaker \notin DOMAIN speaker_voices
     THEN temp_files' = temp_files
     ELSE \E written \in BOOLEAN :
            temp_files' = IF written THEN temp_files \cup {SegmentFile}
                          ELSE temp_files
  /\ warnings' = warnings + 1
  /\ segments' = Append(segments, Clip("silence", Element.pos))
  /\ i' = i + 1
  /\ UNCHANGED <<transcript_text, pc, speakers, speaker_voices, temp_dir,
                 all_elements, result>>

\* lines 133-143: a cue with "music" and "fade"
CueMusic ==
  /\ pc = "loop" /\ i < Len(all_elements)
  /\ Element.kind = "cue"
  /\ IsMusicCue(CueText(Element))
  /\ segments' = segments \o MusicClips(CueText(Element), Element.pos)
  /\ i' = i + 1
  /\ UNCHANGED <<transcript_text, pc, speakers, speaker_voices, temp_dir,
                 temp_files, all_elements, warnings, result>>

\* lines 144-159: a cue with "all:", synthesized with the first voice
\* (gTTS refuses an empty text, so an empty utterance takes the except branch)
CueAll ==
  /\ pc = "loop" /\ i < Len(all_elements)
  /\ Element.kind = "cue"
  /\ IsAllCue(CueText(Element))
  /\ \E ok \in BOOLEAN :
       IF ok /\ AllUtterance(CueText(Element)) # <<>>
       THEN /\ temp_files' = temp_files \cup {<<"all_voices", 0>>}
            /\ segments' = Append(segments,
                 Speech("all_voices", Element.pos,
                        AllUtterance(CueText(Element)), voice_options[1]))
            /\ warnings' = warnings
       ELSE /\ \E written \in BOOLEAN :
                 temp_files' = IF written
                               THEN temp_files \cup {<<"all_voices", 0>>}
                               ELSE temp_files
            /\ segments' = Append(segments, Clip("silence", Element.pos))
            /\ warnings' = warnings + 1
  /\ i' = i + 1
  /\ UNCHANGED <<transcript_text, pc, speakers, speaker_voices, temp_dir,
                 all_elements, result>>

\* lines 133-159: a cue that matches neither test
CueIgnored ==
  /\ pc = "loop" /\ i < Len(all_elements)
  /\ Element.kind = "cue"
  /\ ~IsMusicCue(CueText(Element))
  /\ ~IsAllCue(CueText(Element))
  /\ i' = i + 1
  /\ UNCHANGED <<transcript_text, pc, speakers, speaker_voices, temp_dir,
                 temp_files, segments, all_elements, warnings, result>>

\* lines 161-179: combine and export, or report that nothing was created
Finish ==
  /\ pc = "loop" /\ i = Len(all_elements)
  /\ IF segments # <<>>
     THEN \E failed \in BOOLEAN :
            result' = IF failed THEN "raised" ELSE "bytes"
     ELSE result' = "none"
  /\ pc' = "done"
  /\ UNCHANGED <<transcript_text, speakers, speaker_voices, temp_dir,
                 temp_files, segments, all_elements, i, warnings>>

Next ==
  \/ Parse
  \/ TurnSynthesized
  \/ TurnFailed
  \/ CueMusic
  \/ CueAll
  \/ CueIgnored
  \/ Finish

Spec == Init /\ [][Next]_vars

----------------------------------------------------------------------------
(* Properties *)

\* the clips of segments that the event at offset p appended
ClipsOf(p) == SelectSeq(segments, LAMBDA c : c.pos = p)

\* the events the loop has gone through
Processed == {all_elements[k] : k \in 1..i}

CueClipKinds == {"background_fade_in", "outro_fade_out", "all_voices"}

\* C1: the list of clips starts with the intro clip and the clips of the
\* events follow it in ascending order of the events' source position.
C1_IntroFirstThenSourceOrder ==
  pc # "start" =>
    /\ Len(segments) >= 1
    /\ segments[1] = IntroClip
    /\ \A j \in 2..Len(segments) :
         \E e \in Processed : e.pos = segments[j].pos
    /\ \A j, k \in 2..Len(segments) :
         j < k => segments[j].pos <= segments[k].pos

\* a finished run in which a turn's clip is followed by a later cue's clip
C1_Witness ==
  /\ pc = "done"
  /\ \E j, k \in 2..Len(segments) :
       /\ j < k
       /\ segments[j].kind = "speech"
       /\ segments[k].kind \in CueClipKinds
       /\ segments[j].pos < segments[k].pos

\* C2: every rendered turn, failed or not, contributes exactly two clips,
\* the speech or fallback-silence clip followed by its pause clip.
C2_FailedTurnKeepsPause ==
  \A e \in Processed :
    e.kind = "turn" =>
      /\ Len(ClipsOf(e.pos)) = 2
      /\ ClipsOf(e.pos)[1].kind \in {"speech", "silence"}
      /\ ClipsOf(e.pos)[2].kind = "pause"

\* C3: a transcript with zero timeline events ends with the empty-timeline
\* report and no audio bytes.
C3_EmptyTimelineReported ==
  (pc = "done" /\ all_elements = <<>>) => result = "none"

\* the distinct speakers in order of first appearance in the text
RECURSIVE FirstSeen(_)
FirstSeen(l) ==
  IF l = <<>> THEN <<>>
  ELSE LET rest == FirstSeen(SubSeq(l, 1, Len(l) - 1))
       IN  IF \E k \in 1..Len(rest) : rest[k] = l[Len(l)]
           THEN rest ELSE Append(rest, l[Len(l)])

\* C4: the i-th distinct speaker in order of first appearance (i from 0) is
\* bound to voice_options[i mod 4].
C4_RoundRobinFirstSeen ==
  pc # "start" =>
    LET order == FirstSeen(SpeakerTurns(transcript_text))
    IN  \A k \in 1..Len(order) :
          /\ order[k] \in DOMAIN speaker_voices
          /\ speaker_voices[order[k]] = voice_options[((k - 1) % 4) + 1]

\* C5: the speaker of every turn in the ordered event list is a key of
\* speaker_voices.
C5_VoicesTotalOverTurns ==
  pc # "start" =>
    \A k \in 1..Len(all_elements) :
      all_elements[k].kind = "turn" =>
        all_elements[k].speaker \in DOMAIN speaker_voices

\* C6: every turn in the event list starts at offset 0 or right after a
\* newline.
C6_TurnsStartAtLineStart ==
  \A k \in 1..Len(all_elements) :
    all_elements[k].kind = "turn" =>
      \/ all_elements[k].pos = 0
      \/ transcript_text[all_elements[k].pos] = "\n"

\* a speaker label at the start of a line
LineStartLabel(s, p) == LabelAt(s, p) /\ (p = 0 \/ s[p] = "\n")

\* the next token after offset c: newline plus label, '[' or end of text
NextToken(s, c) ==
  Min({q \in c..Len(s) :
         \/ q = Len(s)
         \/ s[q + 1] = "["
         \/ s[q + 1] = "\n" /\ LabelAt(s, q + 1)})

\* C7: a line-start label with no text before the next token emits no turn,
\* and every emitted turn has a trimmed, non-empty text that holds neither a
\* '[' nor a newline followed by a speaker label.
C7_EmptyLabelDroppedTextBounded ==
  pc # "start" =>
    /\ \A p \in 0..(Len(transcript_text) - 1) :
         ( /\ LineStartLabel(transcript_text, p)
           /\ LET c == AlphaEnd(transcript_text, p) + 1
              IN  Strip(Slice(transcript_text, c,
                              NextToken(transcript_text, c))) = <<>> )
         => ~\E k \in 1..Len(all_elements) :
               all_elements[k].kind = "turn" /\ all_elements[k].pos = p
    /\ \A k \in 1..Len(all_elements) :
         all_elements[k].kind = "turn" =>
           LET t == all_elements[k].text
           IN  /\ t # <<>>
               /\ Strip(t) = t
               /\ ~Contains(t, <<"[">>)
               /\ ~\E q \in 0..(Len(t) - 1) :
                     t[q + 1] = "\n" /\ LabelAt(t, q + 1)

\* C8: at the end of the run, the span of an "all:" cue has contributed
\* exactly one clip.
C8_AllCueOneClip ==
  pc = "done" =>
    \A k \in 1..Len(all_elements) :
      LET e == all_elements[k]
      IN  (e.kind = "cue" /\ IsAllCue(CueText(e))) =>
            Cardinality({j \in 2..Len(segments) :
                           /\ e.pos <= segments[j].pos
                           /\ segments[j].pos < e.pos + Len(e.text)}) = 1

\* the case-folded text between the brackets of a cue
Folded(e) == Lower(SubSeq(e.text, 2, Len(e.text) - 1))

HasMusicFade(t) == Contains(t, MusicWord) /\ Contains(t, FadeWord)

\* C9 as stated: "out" decides first. A music+fade cue with "out" appends the
\* fade-out tone clip, one with "in" and no "out" the fade-in background clip.
C9_OutDecidesFirst ==
  \A e \in Processed :
    (e.kind = "cue" /\ HasMusicFade(Folded(e))) =>
      /\ Contains(Folded(e), OutWord) =>
           ClipsOf(e.pos) = <<Clip("outro_fade_out", e.pos)>>
      /\ (~Contains(Folded(e), OutWord) /\ Contains(Folded(e), InWord)) =>
           ClipsOf(e.pos) = <<Clip("background_fade_in", e.pos)>>

\* C9 amended: every cue appends at most one clip; a music+fade cue with
\* "in" appends the fade-in background clip, one with "out" and no "in" the
\* fade-out tone clip, one with neither nothing; a cue that is neither
\* music+fade nor "all:" appends nothing and records no warning.
C9_InDecidesFirst ==
  /\ \A e \in Processed :
       e.kind = "cue" =>
         /\ Len(ClipsOf(e.pos)) <= 1
         /\ HasMusicFade(Folded(e)) =>
              /\ Contains(Folded(e), InWord) =>
                   ClipsOf(e.pos) = <<Clip("background_fade_in", e.pos)>>
              /\ (~Contains(Folded(e), InWord)
                   /\ Contains(Folded(e), OutWord)) =>
                   ClipsOf(e.pos) = <<Clip("outro_fade_out", e.pos)>>
              /\ (~Contains(Folded(e), InWord)
                   /\ ~Contains(Folded(e), OutWord)) =>
                   ClipsOf(e.pos) = <<>>
         /\ (~HasMusicFade(Folded(e)) /\ ~Contains(Folded(e), AllWord)) =>
              ClipsOf(e.pos) = <<>>
  /\ (\A e \in Processed : e.kind = "cue" /\ ~Contains(Folded(e), AllWord))
       => warnings = 0

\* a finished run with a music+fade cue that holds both "in" and "out"
C9_Witness ==
  /\ pc = "done"
  /\ \E e \in Processed :
       /\ e.kind = "cue"
       /\ HasMusicFade(Folded(e))
       /\ Contains(Folded(e), InWord)
       /\ Contains(Folded(e), OutWord)
       /\ ClipsOf(e.pos) = <<Clip("background_fade_in", e.pos)>>

\* C10: when the run has ended, the temporary directory and the segment
\* files of the conversion are gone.
C10_TempReleased ==
  pc = "done" => (temp_dir = FALSE /\ temp_files = {})

====
